---- MODULE Spec2Model ----
(***************************************************************************)
(* A model of radar-logger's detection pipeline (src/src/main.py): the     *)
(* notification callback that feeds data_queue, the consumer thread        *)
(* consume_data_queue with its per-target windows, staleness sweep and     *)
(* shutdown flush, and the tail of main() that stops the consumer.         *)
(*                                                                         *)
(* Units.  Wall-clock timestamps are whole seconds (the code formats       *)
(* time.localtime() with "%Y-%m-%d %H:%M:%S" and parses it back with       *)
(* strptime/mktime, which keeps exactly the second).  Raw speeds and       *)
(* distances are integers.  calib_slope is held in hundredths, calib_offset*)
(* and every calibrated speed in tenths, so that round(x, 1) is an integer *)
(* rounding that the model has to compute.                                 *)
(***************************************************************************)
EXTENDS Integers, Sequences, FiniteSets, TLC

VARIABLES
    config,            \* keyword arguments of consume_data_queue
    now,               \* the wall clock, in seconds
    data_queue,        \* the shared queue.Queue
    puts,              \* history: every entry ever put on data_queue, in order
    mainPc,            \* position of main() after the consumer thread was started
    pc,                \* position of the consumer thread
    timestamp,         \* consumer local: the second read at the top of the loop
    last_timestamp,    \* consumer local: the second of the last sweep
    data_dict,         \* consumer local: active windows, in dict insertion order
    data_file,         \* records appended to DATA_FILE
    data_stream_file,  \* lines appended to DATA_STREAM_FILE
    console            \* lines printed by print_stream

vars == <<config, now, data_queue, puts, mainPc, pc, timestamp, last_timestamp,
          data_dict, data_file, data_stream_file, console>>

----------------------------------------------------------------------------
\* Bounds of the model.
MaxDetections == 2
MaxTime == 13
MaxSamples == 21     \* samples in the list given to calculate_summary
MaxOutliers == 2     \* of them, samples whose speed differs from the common one

\* Program constants.
StaleSeconds == 10
DEFAULT_CALIB_SLOPE == 100
DEFAULT_CALIB_OFFSET == 0
DEFAULT_DIST_LOW == 10
DEFAULT_DIST_HIGH == 100

\* Python's None as an argument value: a number no valid argument takes.
None == -9999

\* The object() made in main() and compared by identity in the consumer.
sentinel == [kind |-> "sentinel"]

\* Keyword arguments the consumer can be started with.  main() resolves the four
\* scalars to numbers; the function itself also accepts None for each.
ValidConfigs ==
    { [calib_slope |-> DEFAULT_CALIB_SLOPE, calib_offset |-> DEFAULT_CALIB_OFFSET,
       dist_low |-> DEFAULT_DIST_LOW, dist_high |-> DEFAULT_DIST_HIGH,
       print_stream |-> FALSE, write_stream |-> FALSE],
      [calib_slope |-> 125, calib_offset |-> 5,
       dist_low |-> DEFAULT_DIST_LOW, dist_high |-> DEFAULT_DIST_HIGH,
       print_stream |-> TRUE, write_stream |-> TRUE] }

InvalidConfigs ==
    { [calib_slope |-> None, calib_offset |-> DEFAULT_CALIB_OFFSET,
       dist_low |-> DEFAULT_DIST_LOW, dist_high |-> DEFAULT_DIST_HIGH,
       print_stream |-> FALSE, write_stream |-> FALSE],
      [calib_slope |-> DEFAULT_CALIB_SLOPE, calib_offset |-> None,
       dist_low |-> DEFAULT_DIST_LOW, dist_high |-> DEFAULT_DIST_HIGH,
       print_stream |-> FALSE, write_stream |-> TRUE],
      [calib_slope |-> DEFAULT_CALIB_SLOPE, calib_offset |-> DEFAULT_CALIB_OFFSET,
       dist_low |-> None, dist_high |-> DEFAULT_DIST_HIGH,
       print_stream |-> TRUE, write_stream |-> FALSE],
      [calib_slope |-> DEFAULT_CALIB_SLOPE, calib_offset |-> DEFAULT_CALIB_OFFSET,
       dist_low |-> DEFAULT_DIST_LOW, dist_high |-> None,
       print_stream |-> FALSE, write_stream |-> FALSE] }

Configs == ValidConfigs \cup InvalidConfigs

\* Radar measurements the callback can deliver: in range at both thresholds, in
\* range for a second target, and out of range on either side.
Measurements ==
    { [threat_id |-> 1, speed |-> 20, distance |-> 10],
      [threat_id |-> 1, speed |-> 21, distance |-> 100],
      [threat_id |-> 2, speed |-> 23, distance |-> 50],
      [threat_id |-> 2, speed |-> 30, distance |-> 9],
      [threat_id |-> 1, speed |-> 30, distance |-> 101] }

----------------------------------------------------------------------------
\* Helpers over sequences.

Range(s) == { s[i] : i \in DOMAIN s }

RECURSIVE Sum(_)
Sum(s) == IF s = <<>> THEN 0 ELSE Head(s) + Sum(Tail(s))

\* max() of a non-empty list
max(s) == CHOOSE x \in Range(s) : \A y \in Range(s) : y <= x

\* min() of a non-empty list
min(s) == CHOOSE x \in Range(s) : \A y \in Range(s) : x <= y

RemoveAt(s, i) == SubSeq(s, 1, i - 1) \o SubSeq(s, i + 1, Len(s))

\* (mutant) sorted(speeds), without reverse=True
RECURSIVE sorted_ascending(_)
sorted_ascending(s) ==
    IF s = <<>> THEN <<>>
    ELSE LET i == CHOOSE j \in DOMAIN s : \A k \in DOMAIN s : s[j] <= s[k]
         IN  <<s[i]>> \o sorted_ascending(RemoveAt(s, i))

\* sorted(speeds, reverse=True)
RECURSIVE sorted_reverse(_)
sorted_reverse(s) ==
    IF s = <<>> THEN <<>>
    ELSE LET i == CHOOSE j \in DOMAIN s : \A k \in DOMAIN s : s[k] <= s[j]
         IN  <<s[i]>> \o sorted_reverse(RemoveAt(s, i))

\* Python's round() of the rational num/den (den > 0) to an integer: to the nearest,
\* a tie to the even neighbour.
round(num, den) ==
    LET q == num \div den
        r == num - q * den
    IN  IF 2 * r < den THEN q
        ELSE IF 2 * r > den THEN q + 1
        ELSE IF q % 2 = 0 THEN q ELSE q + 1

----------------------------------------------------------------------------
\* calculate_summary(data): data is a list of (timestamp, calib_speed, distance).
\* The average is rounded from the exact quotient; the float quotient of the code
\* can lie on either side of a tie (x.x5), which no property here depends on.
calculate_summary(data) ==
    LET speeds == [i \in DOMAIN data |-> data[i].calib_speed]
        sorted_speeds == sorted_reverse(speeds)
        max_speed == sorted_speeds[1]
        num_samples_95 == (Len(sorted_speeds) * 5) \div 100
        max_speed_95 == max(SubSeq(sorted_speeds, num_samples_95 + 1, Len(sorted_speeds)))
        avg_speed == round(Sum(speeds), Len(speeds))
        earliest_timestamp == min([i \in DOMAIN data |-> data[i].timestamp])
    IN  [timestamp |-> earliest_timestamp,
         max |-> max_speed,
         average |-> avg_speed,
         data |-> [i \in DOMAIN data |-> <<data[i].calib_speed, data[i].distance>>]]
        @@ ("95% max" :> max_speed_95)

\* The record written for one window: the summary plus threat_id, calibration and
\* dist_thresholds.  ids is a history field: the identities of the summarized
\* detection objects.
SummaryRecord(w) ==
    calculate_summary(w.data)
    @@ [threat_id |-> w.threat_id,
        calibration |-> <<config.calib_slope, config.calib_offset>>,
        dist_thresholds |-> <<config.dist_low, config.dist_high>>,
        ids |-> [i \in DOMAIN w.data |-> w.data[i].id]]

Summaries(ws) == [i \in DOMAIN ws |-> SummaryRecord(ws[i])]

----------------------------------------------------------------------------
\* The dictionary data_dict: a sequence of [threat_id, data] in insertion order.

Keys(dict) == { dict[i].threat_id : i \in DOMAIN dict }

\* (mutant) the swept window is not removed
del_kept(dict, threat_id) == dict

\* del data_dict[threat_id]
del(dict, threat_id) == SelectSeq(dict, LAMBDA w : w.threat_id # threat_id)

RECURSIVE DelAll(_, _)
DelAll(dict, ws) ==
    IF ws = <<>> THEN dict ELSE DelAll(del(dict, Head(ws).threat_id), Tail(ws))

\* (mutant) the sample goes to the first window there is, whatever its threat_id
AppendSample_shared(dict, threat_id, sample) ==
    IF dict = <<>>
    THEN Append(dict, [threat_id |-> threat_id, data |-> <<sample>>])
    ELSE [dict EXCEPT ![1].data = Append(@, sample)]

\* (mutant) the sample is inserted at the front of the list
AppendSample_front(dict, threat_id, sample) ==
    IF threat_id \notin Keys(dict)
    THEN Append(dict, [threat_id |-> threat_id, data |-> <<sample>>])
    ELSE [i \in DOMAIN dict |->
            IF dict[i].threat_id = threat_id
            THEN [dict[i] EXCEPT !.data = <<sample>> \o @]
            ELSE dict[i]]

\* (mutant) the first detection of a target only creates the empty list
AppendSample_created_only(dict, threat_id, sample) ==
    IF threat_id \notin Keys(dict)
    THEN Append(dict, [threat_id |-> threat_id, data |-> <<>>])
    ELSE [i \in DOMAIN dict |->
            IF dict[i].threat_id = threat_id
            THEN [dict[i] EXCEPT !.data = Append(@, sample)]
            ELSE dict[i]]

\* if threat_id not in data_dict: data_dict[threat_id] = []
\* data_dict[threat_id].append(sample)
AppendSample(dict, threat_id, sample) ==
    IF threat_id \notin Keys(dict)
    THEN Append(dict, [threat_id |-> threat_id, data |-> <<sample>>])
    ELSE [i \in DOMAIN dict |->
            IF dict[i].threat_id = threat_id
            THEN [dict[i] EXCEPT !.data = Append(@, sample)]
            ELSE dict[i]]

\* (mutant) the thresholds themselves are rejected
OutOfRange_exclusive(entry) ==
    entry.distance <= config.dist_low \/ entry.distance >= config.dist_high

\* (mutant) only the lower threshold is checked
OutOfRange_low_only(entry) == entry.distance < config.dist_low

\* entry.distance < dist_low or entry.distance > dist_high
OutOfRange(entry) ==
    entry.distance < config.dist_low \/ entry.distance > config.dist_high

\* round(entry.speed * calib_slope + calib_offset, 1), in tenths
calib_speed(entry) ==
    round(entry.speed * config.calib_slope + 10 * config.calib_offset, 10)

\* (mutant) ten seconds of silence already count as stale
IsStale_at_ten(w, ts) == ts - w.data[Len(w.data)].timestamp >= StaleSeconds

\* mktime(strptime(timestamp)) - mktime(strptime(newest_timestamp)) > 10
IsStale(w, ts) == ts - w.data[Len(w.data)].timestamp > StaleSeconds

StaleWindows(dict, ts) == SelectSeq(dict, LAMBDA w : IsStale(w, ts))

\* The windows whose open() succeeded when the fail-th open() of a loop raises
\* (fail = 0: none raises).
Written(ws, fail) == IF fail = 0 THEN ws ELSE SubSeq(ws, 1, fail - 1)

----------------------------------------------------------------------------
Init ==
    /\ config \in Configs
    /\ now = 0
    /\ data_queue = <<>>
    /\ puts = <<>>
    /\ mainPc = "waiting"
    /\ pc = "start"
    /\ timestamp = 0
    /\ last_timestamp = 0
    /\ data_dict = <<>>
    /\ data_file = <<>>
    /\ data_stream_file = <<>>
    /\ console = <<>>

NumDetections == Cardinality({ i \in DOMAIN puts : puts[i].kind = "detection" })

\* The objects one callback delivers: measurements, each a fresh object (id).
RECURSIVE Batches(_)
Batches(n) ==
    IF n = 0 THEN { <<>> }
    ELSE LET shorter == Batches(n - 1)
         IN  shorter \cup { Append(b, m) : b \in { x \in shorter : Len(x) = n - 1 },
                                           m \in Measurements }

Entries(data) ==
    [i \in DOMAIN data |->
        [kind |-> "detection", id |-> NumDetections + i,
         threat_id |-> data[i].threat_id, speed |-> data[i].speed,
         distance |-> data[i].distance]]

\* my_measurement_handler(data): put each entry on the queue, in order.  The BLE
\* stack calls it; it stops when the client context is left.
my_measurement_handler(data) ==
    /\ mainPc \in {"waiting", "joining"}
    /\ data # <<>>
    /\ data_queue' = data_queue \o Entries(data)
    /\ puts' = puts \o Entries(data)
    /\ UNCHANGED <<config, now, mainPc, pc, timestamp, last_timestamp, data_dict,
                   data_file, data_stream_file, console>>

Notify == \E data \in Batches(MaxDetections - NumDetections) : my_measurement_handler(data)

----------------------------------------------------------------------------
\* main() from the wait for the runtime on.

\* The user stops the program: the pending await raises, main() is left through
\* the async with, and the statements after the wait are not executed.
UserStop ==
    /\ mainPc = "waiting"
    /\ mainPc' = "cancelled"
    /\ UNCHANGED <<config, now, data_queue, puts, pc, timestamp, last_timestamp,
                   data_dict, data_file, data_stream_file, console>>

\* asyncio.sleep(args.runtime) returns; main() disables the notifications and puts
\* the sentinel: data_queue.put(sentinel).  It then blocks in consumer_thread.join().
RuntimeExpires ==
    /\ mainPc = "waiting"
    /\ data_queue' = Append(data_queue, sentinel)
    /\ puts' = Append(puts, sentinel)
    /\ mainPc' = "joining"
    /\ UNCHANGED <<config, now, pc, timestamp, last_timestamp, data_dict,
                   data_file, data_stream_file, console>>

ConsumerReturned == pc \in {"config_error", "done", "interrupted", "crashed"}

\* consumer_thread.join() returns; main() ends.
Join ==
    /\ mainPc = "joining"
    /\ ConsumerReturned
    /\ mainPc' = "exited"
    /\ UNCHANGED <<config, now, data_queue, puts, pc, timestamp, last_timestamp,
                   data_dict, data_file, data_stream_file, console>>

----------------------------------------------------------------------------
\* consume_data_queue.

\* (mutant) only the calibration arguments are checked
ConsumerStart_calib_only ==
    /\ pc = "start"
    /\ IF config.calib_slope = None \/ config.calib_offset = None
       THEN /\ pc' = "config_error"
            /\ UNCHANGED <<data_dict, last_timestamp>>
       ELSE /\ pc' = "top"
            /\ data_dict' = <<>>
            /\ last_timestamp' = now
    /\ UNCHANGED <<config, now, data_queue, puts, mainPc, timestamp,
                   data_file, data_stream_file, console>>

\* The checks of the arguments and the initialisation before the loop.
ConsumerStart ==
    /\ pc = "start"
    /\ IF \/ config.calib_slope = None \/ config.calib_offset = None
          \/ config.dist_high = None \/ config.dist_low = None
       THEN /\ pc' = "config_error"
            /\ UNCHANGED <<data_dict, last_timestamp>>
       ELSE /\ pc' = "top"
            /\ data_dict' = <<>>
            /\ last_timestamp' = now
    /\ UNCHANGED <<config, now, data_queue, puts, mainPc, timestamp,
                   data_file, data_stream_file, console>>

\* timestamp = time.strftime(...), then the thread blocks in data_queue.get.
LoopTop ==
    /\ pc = "top"
    /\ timestamp' = now
    /\ pc' = "get"
    /\ UNCHANGED <<config, now, data_queue, puts, mainPc, last_timestamp, data_dict,
                   data_file, data_stream_file, console>>

\* (mutant) the loop is not left after the flush
Flush_no_break(fail) ==
    /\ fail <= Len(data_dict)
    /\ data_file' = data_file \o Summaries(Written(data_dict, fail))
    /\ pc' = IF fail = 0 THEN "top" ELSE "crashed"
    /\ UNCHANGED <<data_dict, last_timestamp, data_stream_file, console>>

\* (mutant) the loop is left without writing the remaining windows
Flush_nothing(fail) ==
    /\ fail = 0
    /\ pc' = "done"
    /\ UNCHANGED <<data_dict, data_file, last_timestamp, data_stream_file, console>>

\* The sentinel branch: every window is summarized and written, then break.
Flush(fail) ==
    /\ fail <= Len(data_dict)
    /\ data_file' = data_file \o Summaries(Written(data_dict, fail))
    /\ pc' = IF fail = 0 THEN "done" ELSE "crashed"
    /\ UNCHANGED <<data_dict, last_timestamp, data_stream_file, console>>

\* (mutant) the sweep is skipped
Sweep_never(dict, fail) ==
    /\ fail = 0
    /\ data_dict' = dict
    /\ pc' = "top"
    /\ UNCHANGED <<last_timestamp, data_file>>

\* The code after the try block, run on the dictionary dict the try block left.
Sweep(dict, fail) ==
    IF timestamp # last_timestamp
    THEN LET stale == StaleWindows(dict, timestamp)
         IN  /\ fail <= Len(stale)
             /\ last_timestamp' = timestamp
             /\ data_dict' = DelAll(dict, Written(stale, fail))
             /\ data_file' = data_file \o Summaries(Written(stale, fail))
             /\ pc' = IF fail = 0 THEN "top" ELSE "crashed"
    ELSE /\ fail = 0
         /\ data_dict' = dict
         /\ pc' = "top"
         /\ UNCHANGED <<last_timestamp, data_file>>

\* (mutant) the line is printed but not written to DATA_STREAM_FILE
Accept_no_file_trace(entry, fail) ==
    LET line == [timestamp |-> timestamp, entry |-> entry]
        sample == [timestamp |-> timestamp, calib_speed |-> calib_speed(entry),
                   distance |-> entry.distance, id |-> entry.id]
    IN  /\ console' = IF config.print_stream THEN Append(console, line) ELSE console
        /\ data_stream_file' = data_stream_file
        /\ Sweep(AppendSample(data_dict, entry.threat_id, sample), fail)

\* An entry inside the thresholds: calibrate, trace, append, then the sweep.
Accept(entry, fail) ==
    LET line == [timestamp |-> timestamp, entry |-> entry]
        sample == [timestamp |-> timestamp, calib_speed |-> calib_speed(entry),
                   distance |-> entry.distance, id |-> entry.id]
        opens == IF config.write_stream THEN 1 ELSE 0
    IN  /\ console' = IF config.print_stream THEN Append(console, line) ELSE console
        /\ IF fail # 0 /\ fail <= opens
           THEN /\ pc' = "crashed"
                /\ UNCHANGED <<data_stream_file, data_dict, last_timestamp, data_file>>
           ELSE /\ data_stream_file' = IF config.write_stream
                                       THEN Append(data_stream_file, line)
                                       ELSE data_stream_file
                /\ Sweep(AppendSample(data_dict, entry.threat_id, sample),
                         IF fail = 0 THEN 0 ELSE fail - opens)

\* One pass of the loop in which get() returns an entry; the fail-th open() of the
\* pass raises (fail = 0: every open() succeeds).
Process(fail) ==
    /\ pc = "get"
    /\ data_queue # <<>>
    /\ data_queue' = Tail(data_queue)
    /\ LET entry == Head(data_queue)
       IN  IF entry = sentinel
           THEN Flush(fail)
           ELSE IF OutOfRange(entry)
           THEN /\ fail = 0
                /\ pc' = "top"
                /\ UNCHANGED <<data_dict, last_timestamp, data_file,
                               data_stream_file, console>>
           ELSE Accept(entry, fail)
    /\ UNCHANGED <<config, now, puts, mainPc, timestamp>>

\* One pass of the loop in which get() raises queue.Empty after its timeout.
Idle(fail) ==
    /\ pc = "get"
    /\ data_queue = <<>>
    /\ now > timestamp
    /\ Sweep(data_dict, fail)
    /\ UNCHANGED <<config, now, data_queue, puts, mainPc, timestamp,
                   data_stream_file, console>>

GetEntry == Process(0)

GetEmpty == Idle(0)

\* The clock reaches the next second.  get(timeout=1.0) returns within a second,
\* so the clock advances at most once while the thread is in one get().
Tick ==
    /\ pc = "get"
    /\ now = timestamp
    /\ now < MaxTime
    /\ now' = now + 1
    /\ UNCHANGED <<config, data_queue, puts, mainPc, pc, timestamp, last_timestamp,
                   data_dict, data_file, data_stream_file, console>>

Next ==
    \/ Notify
    \/ RuntimeExpires
    \/ UserStop
    \/ Join
    \/ ConsumerStart
    \/ LoopTop
    \/ GetEntry
    \/ GetEmpty
    \/ Tick

Spec == Init /\ [][Next]_vars

----------------------------------------------------------------------------
\* The same program where the environment can also fail it: an open() of DATA_FILE or
\* DATA_STREAM_FILE can raise (nothing in the loop catches OSError, so the exception
\* ends the thread), and a KeyboardInterrupt can reach the blocked get().

ProcessWriteFails == \E fail \in 1..(MaxDetections + 1) : Process(fail)

IdleWriteFails == \E fail \in 1..MaxDetections : Idle(fail)

\* except KeyboardInterrupt: break
Interrupted ==
    /\ pc = "get"
    /\ pc' = "interrupted"
    /\ UNCHANGED <<config, now, data_queue, puts, mainPc, timestamp, last_timestamp,
                   data_dict, data_file, data_stream_file, console>>

FaultNext ==
    \/ Next
    \/ ProcessWriteFails
    \/ IdleWriteFails
    \/ Interrupted

FaultSpec == Init /\ [][FaultNext]_vars

----------------------------------------------------------------------------
\* Vocabulary of the properties.

ValidConfig ==
    /\ config.calib_slope # None /\ config.calib_offset # None
    /\ config.dist_low # None /\ config.dist_high # None

\* The detections put on the queue so far.
Detections == { puts[i] : i \in { j \in DOMAIN puts : puts[j].kind = "detection" } }

InRange(d) == config.dist_low <= d.distance /\ d.distance <= config.dist_high

\* Identities of the samples held in the active windows / written to DATA_FILE.
WindowIds(w) == { w.data[k].id : k \in DOMAIN w.data }
ActiveIds == UNION { WindowIds(data_dict[i]) : i \in DOMAIN data_dict }
RecordIds(r) == { r.ids[k] : k \in DOMAIN r.ids }
WrittenIds == UNION { RecordIds(data_file[i]) : i \in DOMAIN data_file }

\* Number of times the sample id occurs in the data of the records of DATA_FILE.
TimesWritten(id) ==
    Cardinality({ <<i, k>> \in (DOMAIN data_file) \X (1..MaxDetections) :
                    k \in DOMAIN data_file[i].ids /\ data_file[i].ids[k] = id })

\* newest_timestamp = data[-1][0]
NewestTimestamp(w) == w.data[Len(w.data)].timestamp

\* The consumer takes an entry off the queue in this step.
Dequeues == pc = "get" /\ data_queue # <<>> /\ data_queue' = Tail(data_queue)

----------------------------------------------------------------------------
\* C1: no window is summarized twice: every accepted sample appears in the data of
\* at most one record of DATA_FILE, and a sample that was written by a sweep is no
\* longer in an active window that a later sweep or the flush could write again.
C1_NoWindowSummarizedTwice ==
    \A d \in Detections :
        /\ TimesWritten(d.id) <= 1
        /\ (d.id \in WrittenIds /\ pc \in {"top", "get"}) => d.id \notin ActiveIds

\* C1 witness: the consumer has ended on the sentinel after a sweep wrote and removed
\* one window and the flush wrote another.
C1_Witness ==
    /\ pc = "done"
    /\ \E i, j \in DOMAIN data_file :
          /\ data_file[i].threat_id \notin Keys(data_dict)
          /\ data_file[j].threat_id \in Keys(data_dict)

----------------------------------------------------------------------------
\* C3: every dequeued detection whose distance is within [dist_low, dist_high], both
\* bounds included, is appended exactly once, as the last sample of the window of its
\* own threat_id; the sample carries the raw distance and the calibrated speed
\* round(speed * slope + offset, 1): the multiple of 0.1 nearest to the exact value
\* (the even one on a tie).  Afterwards the sample is in no other window, and never
\* twice in one.
C3_Nearest(d, c) ==
    LET exact == 10 * d.speed * config.calib_slope + 100 * config.calib_offset
        diff == IF 100 * c >= exact THEN 100 * c - exact ELSE exact - 100 * c
    IN  diff < 50 \/ (diff = 50 /\ c % 2 = 0)

C3_AppendedTo(d, before, after) ==
    \E i \in DOMAIN after :
        LET data == after[i].data
            last == data[Len(data)]
            old == { j \in DOMAIN before : before[j].threat_id = d.threat_id }
        IN  /\ after[i].threat_id = d.threat_id
            /\ last.id = d.id
            /\ last.distance = d.distance
            /\ C3_Nearest(d, last.calib_speed)
            /\ IF old = {} THEN Len(data) = 1
               ELSE \A j \in old : SubSeq(data, 1, Len(data) - 1) = before[j].data

C3_InRangeDetectionAppendedOnce ==
    /\ [][ (Dequeues /\ Head(data_queue).kind = "detection" /\ InRange(Head(data_queue)))
           => C3_AppendedTo(Head(data_queue), data_dict, data_dict') ]_vars
    /\ [](\A d \in Detections :
            Cardinality({ <<i, k>> \in (DOMAIN data_dict) \X (1..MaxDetections) :
                            /\ k \in DOMAIN data_dict[i].data
                            /\ data_dict[i].data[k].id = d.id
                            /\ data_dict[i].threat_id = d.threat_id })
            = IF d.id \in ActiveIds THEN 1 ELSE 0)

\* C3 witness: a window holds two samples, taken at dist_low and at dist_high, under
\* a calibration that has to round (slope 1.25, offset 0.5; 21 * 1.25 + 0.5 = 26.75).
C3_Witness ==
    /\ config.calib_slope = 125
    /\ \E i \in DOMAIN data_dict :
          /\ Len(data_dict[i].data) = 2
          /\ { data_dict[i].data[k].distance : k \in {1, 2} }
               = {config.dist_low, config.dist_high}
          /\ 268 \in { data_dict[i].data[k].calib_speed : k \in {1, 2} }

----------------------------------------------------------------------------
\* C4: a dequeued detection with distance < dist_low or distance > dist_high leaves
\* the aggregation state as it was (no window created, none appended to, no last-seen
\* time changed, nothing written), and it is never part of a window or of a record
\* of DATA_FILE.
C4_Rejected(d) == d.distance < config.dist_low \/ d.distance > config.dist_high

C4_RejectedLeavesStateUnchanged ==
    /\ [][ (Dequeues /\ Head(data_queue).kind = "detection" /\ C4_Rejected(Head(data_queue)))
           => UNCHANGED <<data_dict, data_file>> ]_vars
    /\ [](\A d \in Detections :
            (ValidConfig /\ C4_Rejected(d)) => d.id \notin ActiveIds \cup WrittenIds)

\* C4 witness: a detection outside the thresholds has been dequeued while a window
\* is open.
C4_Witness ==
    /\ pc = "top"
    /\ data_dict # <<>>
    /\ \E d \in Detections :
          /\ ValidConfig /\ C4_Rejected(d)
          /\ d \notin Range(data_queue)

----------------------------------------------------------------------------
\* C5: a sweep run with timestamp now finalizes exactly the windows whose newest
\* sample is more than 10 seconds older than now: each of them is written (one record)
\* and removed, and every window at most 10 seconds old, exactly 10 included, stays
\* with its samples unchanged.  The sweep runs in the passes that move last_timestamp.
C5_SweepRuns == pc = "get" /\ pc' = "top" /\ last_timestamp' # last_timestamp

\* the window of the detection accepted in this pass, if any, is the one that grows
C5_Accepted(w) ==
    /\ data_queue # <<>>
    /\ Head(data_queue).kind = "detection"
    /\ Head(data_queue).threat_id = w.threat_id
    /\ InRange(Head(data_queue))

C5_SweepFinalizesExactlyStale ==
    [][ C5_SweepRuns =>
        LET new == SubSeq(data_file', Len(data_file) + 1, Len(data_file'))
            stale == { i \in DOMAIN data_dict :
                         /\ ~C5_Accepted(data_dict[i])
                         /\ timestamp - NewestTimestamp(data_dict[i]) > 10 }
        IN  /\ SubSeq(data_file', 1, Len(data_file)) = data_file
            /\ Len(new) = Cardinality(stale)
            /\ \A i \in DOMAIN data_dict :
                  IF i \in stale
                  THEN /\ data_dict[i].threat_id \notin Keys(data_dict')
                       /\ \E k \in DOMAIN new :
                             /\ new[k].threat_id = data_dict[i].threat_id
                             /\ RecordIds(new[k]) = WindowIds(data_dict[i])
                  ELSE \E j \in DOMAIN data_dict' :
                          /\ data_dict'[j].threat_id = data_dict[i].threat_id
                          /\ \/ data_dict'[j] = data_dict[i]
                             \/ C5_Accepted(data_dict[i]) ]_vars

\* C5 witness: a sweep has just written and removed one window while another window,
\* whose newest sample is exactly 10 seconds old, stayed.
C5_Witness ==
    /\ pc = "top"
    /\ last_timestamp = timestamp
    /\ \E r \in Range(data_file) :
          /\ r.threat_id \notin Keys(data_dict)
          /\ r.timestamp + 11 = timestamp
    /\ \E w \in Range(data_dict) : timestamp - NewestTimestamp(w) = 10

----------------------------------------------------------------------------
\* C6: on the sentinel the consumer writes one record for every window still active,
\* whatever its age, and ends its loop; from then on it takes nothing off the queue
\* (entries put behind the sentinel stay there) and changes no window and no output,
\* and no window is left without its record.
C6_SentinelFlushesAndStops ==
    /\ [][ (Dequeues /\ Head(data_queue) = sentinel) =>
             /\ pc' = "done"
             /\ Len(data_file') = Len(data_file) + Len(data_dict)
             /\ SubSeq(data_file', 1, Len(data_file)) = data_file
             /\ \A i \in DOMAIN data_dict :
                   /\ data_file'[Len(data_file) + i].threat_id = data_dict[i].threat_id
                   /\ RecordIds(data_file'[Len(data_file) + i]) = WindowIds(data_dict[i])
                   /\ Len(data_file'[Len(data_file) + i].data) = Len(data_dict[i].data) ]_vars
    /\ [][ pc = "done" =>
             /\ pc' = "done"
             /\ UNCHANGED <<data_dict, data_file, data_stream_file, console>>
             /\ Len(data_queue') >= Len(data_queue)
             /\ SubSeq(data_queue', 1, Len(data_queue)) = data_queue ]_vars
    /\ [](pc = "done" => ActiveIds \subseteq WrittenIds)

\* C6 witness: the consumer has ended on the sentinel, its flush wrote a window that
\* was not stale, and a detection put behind the sentinel is still in the queue.
C6_Witness ==
    /\ pc = "done"
    /\ data_queue # <<>>
    /\ \E w \in Range(data_dict) : timestamp - NewestTimestamp(w) <= 10

----------------------------------------------------------------------------
\* C7: the queue is first-in first-out, so when the consumer ends on the sentinel
\* every detection that was put before the sentinel has been taken off the queue, and
\* every one of them that is in range is in a record of DATA_FILE.
C7_SentinelAt == CHOOSE i \in DOMAIN puts : puts[i] = sentinel

C7_EnqueuedBeforeSentinelAreSummarized ==
    /\ Len(data_queue) <= Len(puts)
    /\ data_queue = SubSeq(puts, Len(puts) - Len(data_queue) + 1, Len(puts))
    /\ pc = "done" =>
         /\ sentinel \in Range(puts)
         /\ \A i \in 1..(C7_SentinelAt - 1) :
               /\ puts[i] \notin Range(data_queue)
               /\ InRange(puts[i]) => puts[i].id \in WrittenIds

\* C7 witness: two in-range detections were put before the sentinel, one of them was
\* written by the flush, and the consumer has ended.
C7_Witness ==
    /\ pc = "done"
    /\ C7_SentinelAt = 3
    /\ InRange(puts[1]) /\ InRange(puts[2])
    /\ puts[2].id \in ActiveIds

----------------------------------------------------------------------------
\* The scheduling the code relies on: the consumer thread keeps running and the clock
\* keeps advancing.  main() may wait forever (runtime None), so no step of main() is
\* fair.  The run is the one main() starts with its default arguments.
LiveInit ==
    /\ Init
    /\ config.calib_slope = DEFAULT_CALIB_SLOPE /\ config.calib_offset = DEFAULT_CALIB_OFFSET
    /\ config.dist_low = DEFAULT_DIST_LOW /\ config.dist_high = DEFAULT_DIST_HIGH
    /\ ~config.print_stream /\ ~config.write_stream

LiveSpec ==
    /\ LiveInit /\ [][Next]_vars
    /\ WF_vars(ConsumerStart \/ LoopTop \/ GetEntry \/ GetEmpty)
    /\ WF_vars(Tick)

\* C2: every sample that was accepted into a window gets written.  When the consumer
\* ends on the sentinel, every accepted sample is in a record.  And within the clock
\* horizon of the model: once the feed is silent (no detection left to deliver or to
\* dequeue) with more than StaleSeconds + 1 seconds to go, every sample in an active
\* window is eventually in a record, by a sweep or by the flush.  (A sample is in a
\* window or in a record from the pass that accepted it on, so the samples active
\* when the feed falls silent are all written once the active ones are.)
C2_FeedSilent ==
    /\ NumDetections = MaxDetections
    /\ \A i \in DOMAIN data_queue : data_queue[i].kind # "detection"

C2_Pending ==
    /\ pc \in {"top", "get"}
    /\ ActiveIds # {}
    /\ C2_FeedSilent
    /\ now + StaleSeconds + 1 < MaxTime

----------------------------------------------------------------------------
\* C8: when the pipeline is cancelled, by the user or by the runtime, the sentinel is
\* put on the queue and the consumer has finished its flush before main() is left.
C8_CancelInjectsSentinelAndDrains ==
    mainPc \in {"cancelled", "exited"} =>
        /\ sentinel \in Range(puts)
        /\ pc \in {"done", "config_error"}

----------------------------------------------------------------------------
\* C9: after a KeyboardInterrupt in the loop, every window that was active has its
\* record in DATA_FILE when the loop has ended.
C9_InterruptFlushesWindows ==
    pc = "interrupted" => ActiveIds \subseteq WrittenIds

----------------------------------------------------------------------------
\* C10: a failing write to DATA_FILE or DATA_STREAM_FILE does not end the consumer:
\* it is never stopped by the error, so it goes on with the loop (or, in the flush,
\* finishes it).
C10_WriteFailureDoesNotHaltConsumer ==
    pc # "crashed"

----------------------------------------------------------------------------
\* C11: the sweep runs at the end of every pass of the loop in which the second read
\* at the top of the pass differs from the last-checked second, whatever the pass got
\* from the queue (an accepted detection, a rejected one, or nothing): such a pass
\* ends with that second as the last-checked one and with no stale window left.
C11_PassEnds == pc = "get" /\ pc' = "top"

C11_SweepRunsInEveryPassOfANewSecond ==
    [][ (C11_PassEnds /\ timestamp # last_timestamp) =>
            /\ last_timestamp' = timestamp
            /\ \A i \in DOMAIN data_dict' : ~IsStale(data_dict'[i], timestamp) ]_vars

----------------------------------------------------------------------------
\* C12: after a sweep has written and removed the window of a target, the next
\* accepted detection of that target starts a new window.  Of two records of one
\* threat_id in DATA_FILE, the later one holds none of the samples of the earlier
\* one: all its samples were put on the queue later, and its earliest sample is more
\* than StaleSeconds younger than the earliest of the earlier record.  The same holds
\* for the active window of a target that already has a record.
C12_After(r, ids, earliest) ==
    /\ \A a \in RecordIds(r) : \A b \in ids : a < b
    /\ earliest > r.timestamp + StaleSeconds

C12_ReusedTargetStartsNewWindow ==
    /\ \A i, j \in DOMAIN data_file :
          (i < j /\ data_file[i].threat_id = data_file[j].threat_id)
              => /\ C12_After(data_file[i], RecordIds(data_file[j]), data_file[j].timestamp)
                 /\ Len(data_file[j].data) = Cardinality(RecordIds(data_file[j]))
    /\ \A i \in DOMAIN data_file : \A k \in DOMAIN data_dict :
          (data_file[i].threat_id = data_dict[k].threat_id /\ pc \in {"top", "get"})
              => C12_After(data_file[i], WindowIds(data_dict[k]),
                           data_dict[k].data[1].timestamp)

\* C12 witness: DATA_FILE holds two records of one target, the first written by a
\* sweep and the second for the window the target started afterwards.
C12_Witness ==
    \E i, j \in DOMAIN data_file :
        /\ i < j
        /\ data_file[i].threat_id = data_file[j].threat_id
        /\ RecordIds(data_file[i]) # {} /\ RecordIds(data_file[j]) # {}

----------------------------------------------------------------------------
\* C13: the windows of different targets are independent.  Every sample of a window,
\* and of a record of DATA_FILE, comes from a detection with the threat_id of that
\* window, and a target has at most one window.  A pass of the loop touches only the
\* window of the detection it accepted: every other window stays exactly as it was
\* (so its last-seen time is neither extended nor shortened), unless the sweep of the
\* pass removes it, and then because its own newest sample is more than StaleSeconds
\* older than the timestamp of the pass.
C13_From(id, distance, threat_id) ==
    \E d \in Detections :
        d.id = id /\ d.threat_id = threat_id /\ d.distance = distance

C13_WindowsAreIndependent ==
    /\ [](\A i \in DOMAIN data_dict :
            /\ \A k \in DOMAIN data_dict[i].data :
                  C13_From(data_dict[i].data[k].id, data_dict[i].data[k].distance,
                           data_dict[i].threat_id)
            /\ \A j \in DOMAIN data_dict :
                  data_dict[i].threat_id = data_dict[j].threat_id => i = j)
    /\ [](\A i \in DOMAIN data_file : \A k \in DOMAIN data_file[i].ids :
            C13_From(data_file[i].ids[k], data_file[i].data[k][2], data_file[i].threat_id))
    /\ [][ pc = "get" =>
           \A i \in DOMAIN data_dict :
              LET w == data_dict[i]
              IN  ~C5_Accepted(w) =>
                     \/ w \in Range(data_dict')
                     \/ /\ w.threat_id \notin Keys(data_dict')
                        /\ IsStale(w, timestamp)
                        /\ timestamp # last_timestamp ]_vars

\* C13 witness: a sample was accepted for target 2 while target 1 had a window, and
\* a later sweep wrote and removed the window of target 1 alone.
C13_Witness ==
    /\ pc = "top"
    /\ \E i \in DOMAIN data_file : \E k \in DOMAIN data_dict :
          /\ data_file[i].threat_id # data_dict[k].threat_id
          /\ data_file[i].timestamp < data_dict[k].data[1].timestamp
          /\ data_dict[k].data[1].timestamp <= data_file[i].timestamp + StaleSeconds

----------------------------------------------------------------------------
\* C14: started with calib_slope, calib_offset, dist_low or dist_high missing, the
\* consumer returns at once: it never takes an entry off the queue, so every entry
\* the producer has put is still there, and it makes no window, no record in
\* DATA_FILE, and no line of the trace on the console or in DATA_STREAM_FILE.
C14_MissingConfigStopsConsumer ==
    ~ValidConfig =>
        /\ pc \in {"start", "config_error"}
        /\ data_queue = puts
        /\ data_dict = <<>>
        /\ data_file = <<>>
        /\ data_stream_file = <<>>
        /\ console = <<>>

\* C14 witness: the consumer has returned on a missing argument and the callback has
\* put detections, one of them in range, that stay on the queue.
C14_Witness ==
    /\ ~ValidConfig
    /\ pc = "config_error"
    /\ Len(data_queue) = MaxDetections
    /\ \E i \in DOMAIN data_queue : data_queue[i].distance = DEFAULT_DIST_LOW

----------------------------------------------------------------------------
\* The line of the live stream for the entry at the head of the queue:
\* timestamp + " " + str(entry).
C15_Line == [timestamp |-> timestamp, entry |-> Head(data_queue)]

C15_DequeuesDetection == Dequeues /\ Head(data_queue).kind = "detection"

\* C15 as stated: with write_stream every dequeued detection, accepted or rejected,
\* adds exactly one line to DATA_STREAM_FILE, and with print_stream exactly one to
\* the console; with a flag off its stream gets nothing.
C15_EveryDequeuedDetectionIsTraced ==
    [][ C15_DequeuesDetection =>
          /\ data_stream_file' = IF config.write_stream
                                 THEN Append(data_stream_file, C15_Line)
                                 ELSE data_stream_file
          /\ console' = IF config.print_stream
                        THEN Append(console, C15_Line)
                        ELSE console ]_vars

\* C15 (amended): the trace is made after the distance filter.  With write_stream a
\* dequeued detection inside the thresholds adds exactly one line (the timestamp of
\* the pass and the raw entry) to DATA_STREAM_FILE, and with print_stream the same
\* line to the console; a rejected detection adds nothing to either; with a flag off
\* its stream stays empty.
C15_AcceptedDetectionsAreTraced ==
    /\ [][ C15_DequeuesDetection =>
             /\ data_stream_file' =
                    IF config.write_stream /\ InRange(Head(data_queue))
                    THEN Append(data_stream_file, C15_Line)
                    ELSE data_stream_file
             /\ console' =
                    IF config.print_stream /\ InRange(Head(data_queue))
                    THEN Append(console, C15_Line)
                    ELSE console ]_vars
    /\ [][ ~C15_DequeuesDetection => UNCHANGED <<data_stream_file, console>> ]_vars
    /\ [](~config.write_stream => data_stream_file = <<>>)
    /\ [](~config.print_stream => console = <<>>)

\* C15 witness: with both flags on, two detections were dequeued, one inside and one
\* outside the thresholds, and each stream holds the one line of the accepted one.
C15_Witness ==
    /\ config.write_stream /\ config.print_stream
    /\ pc = "top"
    /\ data_queue = <<>>
    /\ \E a, b \in Detections : InRange(a) /\ C4_Rejected(b)
    /\ Len(data_stream_file) = 1
    /\ console = data_stream_file
    /\ \A i \in DOMAIN data_stream_file : InRange(data_stream_file[i].entry)

----------------------------------------------------------------------------
\* calculate_summary on its own: the list of one window grows sample by sample up to
\* MaxSamples, and after each append the function is applied to it, its result being
\* the one record of DATA_FILE.  Most samples have the speed 20.0; up to MaxOutliers
\* of them, at any position, are slower (15.0) or faster (26.8).
SummarySpeeds == {150, 200, 268}

SummaryInit ==
    /\ Init
    /\ config.calib_slope = DEFAULT_CALIB_SLOPE /\ config.calib_offset = DEFAULT_CALIB_OFFSET
    /\ config.dist_low = DEFAULT_DIST_LOW /\ config.dist_high = DEFAULT_DIST_HIGH

SummaryData == IF data_dict = <<>> THEN <<>> ELSE data_dict[1].data

SummaryGrow ==
    /\ Len(SummaryData) < MaxSamples
    /\ \E speed \in SummarySpeeds :
          LET sample == [timestamp |-> now, calib_speed |-> speed,
                         distance |-> DEFAULT_DIST_LOW, id |-> Len(SummaryData) + 1]
              data == Append(SummaryData, sample)
          IN  /\ Cardinality({ k \in DOMAIN data : data[k].calib_speed # 200 })
                    <= MaxOutliers
              /\ data_dict' = AppendSample(data_dict, 1, sample)
              /\ data_file' = Summaries(data_dict')
    /\ UNCHANGED <<config, now, data_queue, puts, mainPc, pc, timestamp,
                   last_timestamp, data_stream_file, console>>

SummaryNext == SummaryGrow

SummarySpec == SummaryInit /\ [][SummaryNext]_vars

\* C16: in every summary, max is the largest speed of the window and '95% max' is
\* the largest speed left when the fastest floor(count * 0.05) samples are dropped:
\* it is a speed of the window, at most that many samples are faster and more than
\* that many are at least as fast.  So max >= '95% max' >= every sample not dropped;
\* '95% max' = max when count < 20; and for one sample max, '95% max' and average
\* are all that sample's speed.
C16_Speeds(r) == [k \in DOMAIN r.data |-> r.data[k][1]]

C16_SummaryOrderStatistics ==
    \A i \in DOMAIN data_file :
        LET r == data_file[i]
            speeds == C16_Speeds(r)
            count == Len(speeds)
            dropped == count \div 20
            p95 == r["95% max"]
        IN  /\ r.max \in Range(speeds)
            /\ \A k \in DOMAIN speeds : speeds[k] <= r.max
            /\ p95 \in Range(speeds)
            /\ Cardinality({ k \in DOMAIN speeds : speeds[k] > p95 }) <= dropped
            /\ Cardinality({ k \in DOMAIN speeds : speeds[k] >= p95 }) > dropped
            /\ p95 <= r.max
            /\ count < 20 => p95 = r.max
            /\ count = 1 => /\ r.max = speeds[1]
                            /\ p95 = speeds[1]
                            /\ r.average = speeds[1]

\* C16 witness: a window of at least 20 samples whose single fastest sample is
\* dropped, so that '95% max' is below max.
C16_Witness ==
    \E i \in DOMAIN data_file :
        /\ Len(data_file[i].data) >= 20
        /\ data_file[i]["95% max"] < data_file[i].max
        /\ data_file[i].data[1][1] # data_file[i].max

----------------------------------------------------------------------------
\* C17: the order of the detections of a target is kept from the callback to the
\* record.  The callback puts the entries in the order they were delivered (ids
\* number the deliveries); the queue hands them out first in, first out, so what is
\* still queued is always the tail of what was put; the samples of a window, and the
\* (speed, distance) pairs of a record, are in the order their detections were put.
C17_Increasing(ids) == \A a, b \in DOMAIN ids : a < b => ids[a] < ids[b]

C17_Pair(r, k) ==
    \E d \in Detections :
        /\ d.id = r.ids[k]
        /\ r.data[k][2] = d.distance
        /\ C3_Nearest(d, r.data[k][1])

C17_OrderIsPreserved ==
    /\ \A i, j \in DOMAIN puts :
          (i < j /\ puts[i].kind = "detection" /\ puts[j].kind = "detection")
              => puts[i].id < puts[j].id
    /\ Len(data_queue) <= Len(puts)
    /\ data_queue = SubSeq(puts, Len(puts) - Len(data_queue) + 1, Len(puts))
    /\ \A i \in DOMAIN data_dict :
          C17_Increasing([k \in DOMAIN data_dict[i].data |-> data_dict[i].data[k].id])
    /\ \A i \in DOMAIN data_file :
          /\ C17_Increasing(data_file[i].ids)
          /\ DOMAIN data_file[i].data = DOMAIN data_file[i].ids
          /\ \A k \in DOMAIN data_file[i].ids : C17_Pair(data_file[i], k)

\* C17 witness: a record holds two samples of one target, at different distances, in
\* the order the callback delivered them.
C17_Witness ==
    \E i \in DOMAIN data_file :
        /\ Len(data_file[i].data) = 2
        /\ data_file[i].data[1][2] # data_file[i].data[2][2]
        /\ data_file[i].ids[1] < data_file[i].ids[2]

----------------------------------------------------------------------------
\* C18: the timestamp stored with a sample, which is also the last-seen time of its
\* window, is the wall-clock second at which the consumer received the detection
\* from the queue, also when the clock advanced while the thread was waiting in get().
C18_SampleStampedAtReceipt ==
    [][ (C15_DequeuesDetection /\ InRange(Head(data_queue)) /\ pc' = "top") =>
          \E i \in DOMAIN data_dict' :
              /\ data_dict'[i].threat_id = Head(data_queue).threat_id
              /\ NewestTimestamp(data_dict'[i]) = now ]_vars

----------------------------------------------------------------------------
\* C19: a window never spans a quiet period: consecutive samples of a window are at
\* most StaleSeconds apart; a detection accepted more than StaleSeconds after the
\* previous sample of its target is not appended to the window holding that sample.
C19_NoWindowSpansAQuietPeriod ==
    \A i \in DOMAIN data_dict :
        \A k \in DOMAIN data_dict[i].data :
            k > 1 => data_dict[i].data[k].timestamp - data_dict[i].data[k - 1].timestamp
                        <= StaleSeconds

----------------------------------------------------------------------------
\* C20: every key of data_dict maps to a list with at least one sample, in every
\* state of the consumer; so the newest sample the sweep reads exists, and every
\* record written, by a sweep or by the flush on the sentinel, summarizes at least
\* one sample.
C20_NoEmptyWindow ==
    /\ \A i \in DOMAIN data_dict : Len(data_dict[i].data) >= 1
    /\ \A i \in DOMAIN data_file : Len(data_file[i].data) >= 1

\* C20 witness: a sweep has written one window and the flush on the sentinel another
\* one, which was opened by a single detection.
C20_Witness ==
    /\ pc = "done"
    /\ Len(data_file) = 2
    /\ data_file[1].threat_id \notin Keys(data_dict)
    /\ \E i \in DOMAIN data_dict :
          /\ Len(data_dict[i].data) = 1
          /\ data_dict[i].threat_id = data_file[2].threat_id
          /\ data_dict[i].data[1].timestamp > data_file[1].timestamp + StaleSeconds

====
